---- MODULE Spec2Model ----
(***************************************************************************)
(* Requirements Intake Orchestrator: the RequirementsInput component       *)
(* (src/unnamed/part_001, "Policy B" validation; its earlier revision with *)
(* "Policy A" validation is the second half of                             *)
(* src/frontend/src/components/Header.js) together with the App state it   *)
(* reports to (src/frontend/src/App.js).                                   *)
(*                                                                         *)
(* Every event handler is one action: JavaScript runs a handler to         *)
(* completion and React flushes the state updates of a user event before   *)
(* the next event is dispatched, so the variables below are the state of   *)
(* the latest render.  An async handler is split at its await: the part    *)
(* before it is the click action, the part after it is the action that     *)
(* resolves the pending promise.                                           *)
(***************************************************************************)
EXTENDS Integers, Sequences, FiniteSets, TLC

VARIABLES
  policy,           \* which revision of validateTextInput is deployed: "A" or "B"
  inputType,        \* useState('text')
  textInput,        \* useState(''), a sequence of characters
  projectInfo,      \* useState({title, author, version})
  isProcessing,     \* useState(false)
  uploadedFiles,    \* useState([]), sequence of {file, id, status}
  results,          \* useState(null)
  error,            \* useState(null)
  validationErrors, \* useState([])
  isRecording,      \* useState(false)
  audioBlob,        \* useState(null); 0 is null, r > 0 the blob of recorder r
  audioUrl,         \* useState(null); 0 is null, r > 0 the object URL of blob r
  recordingTime,    \* useState(0)
  mediaRecorderRef, \* useRef(null); 0 is null, else a recorder
  timerRef,         \* useRef(null); 0 is null, else an interval id
  currentResults,   \* App: useState(null)
  srsData,          \* App: useState(null)
  requests,         \* processing requests in flight (awaited axios.post)
  srsRequests,      \* derived-document requests in flight
  gumPending,       \* getUserMedia promises not yet settled
  recorders,        \* streams acquired so far, each with the state of its MediaRecorder
  timers,           \* intervals scheduled and not cleared
  urls,             \* object URLs created and not revoked
  outcome,          \* how the latest processRequirements invocation stands
  faultEscaped      \* a processRequirements promise was rejected (uncaught)

vars == <<policy, inputType, textInput, projectInfo, isProcessing, uploadedFiles,
          results, error, validationErrors, isRecording, audioBlob, audioUrl,
          recordingTime, mediaRecorderRef, timerRef, currentResults, srsData,
          requests, srsRequests, gumPending, recorders, timers, urls, outcome,
          faultEscaped>>

-----------------------------------------------------------------------------
(* Bounds of the model *)

MaxInFlight == 2     \* processing requests in flight
MaxSrsInFlight == 1  \* derived-document requests in flight
MaxClips == 1        \* recordings started in the submission specifications
MaxStaged == 1       \* files staged in the submission specifications
MaxStarts == 2       \* recordings started in the recording specification
MaxTime == 2         \* seconds counted by the recording timer
MaxFiles == 3        \* files staged in the file-queue specification
MaxId == 2           \* distinct values Date.now() + Math.random() takes
MaxChained == 2      \* derived-document requests in flight in the chaining specification
MaxTextLen == 430    \* characters in the text draft

-----------------------------------------------------------------------------
(* JavaScript values: every value carries its type tag. *)

Null == [t |-> "null"]
Undefined == [t |-> "undefined"]
Str(s) == [t |-> "str", v |-> s]
Arr(q) == [t |-> "arr", v |-> q]
Obj(f) == [t |-> "obj", v |-> f]

\* ToBoolean: null, undefined and the empty string are falsy; arrays, objects truthy
Truthy(x) == CASE x.t = "null" -> FALSE
               [] x.t = "undefined" -> FALSE
               [] x.t = "str" -> x.v # ""
               [] OTHER -> TRUE

\* x.name throws a TypeError on null and undefined
CanRead(x) == x.t \notin {"null", "undefined"}

\* x.name where x is neither null nor undefined: own field of an object,
\* undefined on strings and arrays (no such property)
Get(x, name) == IF x.t = "obj" /\ name \in DOMAIN x.v THEN x.v[name] ELSE Undefined

\* a || b
OrElse(a, b) == IF Truthy(a) THEN a ELSE b

IsArray(x) == x.t = "arr"

-----------------------------------------------------------------------------
(* Text: a string is the sequence of its characters. *)

Letters == {"a","b","c","d","e","f","g","h","i","j","k","l","m","n","o","p","q",
            "r","s","t","u","v","w","x","y","z","A","B","C","D","E","F","G","H",
            "I","J","K","L","M","N","O","P","Q","R","S","T","U","V","W","X","Y","Z"}
Digits == {"0","1","2","3","4","5","6","7","8","9"}
Whitespace == {" ", "\n", "\t"}
\* . , ! ? - ' " and the curly quotes U+2018 U+2019 U+201C U+201D
AllowedPunctuation == {".", ",", "!", "?", "-", "'", "\"", "u2018", "u2019", "u201C", "u201D"}

\* String.prototype.trim: the text between its first and its last character
\* that is not whitespace
Trim(s) ==
  IF \A i \in 1..Len(s) : s[i] \in Whitespace THEN <<>>
  ELSE LET first == CHOOSE i \in 1..Len(s) :
                      s[i] \notin Whitespace /\ \A j \in 1..(i - 1) : s[j] \in Whitespace
           last == CHOOSE i \in 1..Len(s) :
                     s[i] \notin Whitespace /\ \A j \in (i + 1)..Len(s) : s[j] \in Whitespace
       IN SubSeq(s, first, last)

\* s.split(/\s+/): the pieces between maximal runs of whitespace, each given by
\* the positions it spans.  A run at the very start leaves an empty piece
\* before it, a run at the very end an empty piece after it, and the empty
\* string splits into one empty piece.
SplitWhitespace(s) ==
  LET starts == {i \in 1..Len(s) :
                   s[i] \notin Whitespace /\ (i = 1 \/ s[i - 1] \in Whitespace)}
      endOf(a) == CHOOSE b \in a..Len(s) :
                    /\ \A k \in a..b : s[k] \notin Whitespace
                    /\ (b = Len(s) \/ s[b + 1] \in Whitespace)
  IN {[from |-> a, to |-> endOf(a)] : a \in starts}
     \cup (IF s = <<>> \/ s[1] \in Whitespace THEN {[from |-> 1, to |-> 0]} ELSE {})
     \cup (IF s # <<>> /\ s[Len(s)] \in Whitespace
          THEN {[from |-> Len(s) + 1, to |-> Len(s)]} ELSE {})

\* a count that takes every whitespace character for a separator of two words
WordCountPerSeparator(text) ==
  Cardinality({i \in 1..Len(Trim(text)) : Trim(text)[i] \in Whitespace}) + 1

\* text.trim().split(/\s+/).filter(word => word.length > 0).length
WordCount(text) ==
  Cardinality({p \in SplitWhitespace(Trim(text)) : p.to - p.from + 1 > 0})

HasChar(text, S) == \E i \in 1..Len(text) : text[i] \in S

minWords == 50

MsgNumbers == "Text should not contain numbers"
MsgSymbols == "Text should not contain special symbols (only letters and basic punctuation allowed)"
MsgNoLetter == "Text must include at least one alphabetic character (A-Z)."
MsgMinWords(n) == "Minimum 50 words required (current: " \o ToString(n) \o " words)"

\* a strict policy whose symbol rule lets digits through
validateTextInputADigitsAllowed(text) ==
  (IF HasChar(text, Digits) THEN <<Str(MsgNumbers)>> ELSE <<>>)
  \o (IF \E i \in 1..Len(text) :
            text[i] \notin Letters \cup Digits \cup Whitespace \cup AllowedPunctuation
      THEN <<Str(MsgSymbols)>> ELSE <<>>)
  \o (IF WordCount(text) < minWords THEN <<Str(MsgMinWords(WordCount(text)))>> ELSE <<>>)

\* Header.js revision: no digits, no symbol outside the allow-list, 50 words
validateTextInputA(text) ==
  (IF HasChar(text, Digits) THEN <<Str(MsgNumbers)>> ELSE <<>>)
  \o (IF \E i \in 1..Len(text) :
            text[i] \notin Letters \cup Whitespace \cup AllowedPunctuation
      THEN <<Str(MsgSymbols)>> ELSE <<>>)
  \o (IF WordCount(text) < minWords THEN <<Str(MsgMinWords(WordCount(text)))>> ELSE <<>>)

\* a lenient policy that reports the length before the content
validateTextInputBLengthFirst(text) ==
  (IF WordCount(text) < minWords THEN <<Str(MsgMinWords(WordCount(text)))>> ELSE <<>>)
  \o (IF ~HasChar(text, Letters) THEN <<Str(MsgNoLetter)>> ELSE <<>>)

\* part_001 revision: at least one letter, 50 words
validateTextInputB(text) ==
  (IF ~HasChar(text, Letters) THEN <<Str(MsgNoLetter)>> ELSE <<>>)
  \o (IF WordCount(text) < minWords THEN <<Str(MsgMinWords(WordCount(text)))>> ELSE <<>>)

validateTextInput(text) ==
  IF policy = "A" THEN validateTextInputA(text) ELSE validateTextInputB(text)

\* the quick templates of the part_001 revision
TemplateUserManagement ==
  <<"T","h","e"," ","s","y","s","t","e","m"," ","s","h","o","u","l","d"," ",
    "a","l","l","o","w"," ","u","s","e","r","s"," ","t","o"," ","r","e","g",
    "i","s","t","e","r",","," ","l","o","g"," ","i","n",","," ","r","e","s",
    "e","t"," ","p","a","s","s","w","o","r","d","s",","," ","a","n","d"," ",
    "u","p","d","a","t","e"," ","p","r","o","f","i","l","e","s","."," ","A",
    "d","m","i","n","i","s","t","r","a","t","o","r","s"," ","c","a","n"," ",
    "m","a","n","a","g","e"," ","u","s","e","r"," ","r","o","l","e","s",",",
    " ","p","e","r","m","i","s","s","i","o","n","s",","," ","a","n","d"," ",
    "v","i","e","w"," ","a","u","d","i","t"," ","l","o","g","s","."," ","T",
    "h","e"," ","p","l","a","t","f","o","r","m"," ","m","u","s","t"," ","e",
    "n","s","u","r","e"," ","s","t","r","o","n","g"," ","s","e","c","u","r",
    "i","t","y",","," ","i","n","c","l","u","d","i","n","g"," ","s","e","s",
    "s","i","o","n"," ","m","a","n","a","g","e","m","e","n","t",","," ","r",
    "a","t","e"," ","l","i","m","i","t","i","n","g",","," ","a","n","d"," ",
    "m","u","l","t","i","-","f","a","c","t","o","r"," ","a","u","t","h","e",
    "n","t","i","c","a","t","i","o","n","."," ","N","o","t","i","f","i","c",
    "a","t","i","o","n","s"," ","s","h","o","u","l","d"," ","b","e"," ","s",
    "e","n","t"," ","f","o","r"," ","c","r","i","t","i","c","a","l"," ","a",
    "c","t","i","o","n","s"," ","a","n","d"," ","p","r","o","f","i","l","e",
    " ","c","h","a","n","g","e","s","."," ","T","h","e"," ","s","y","s","t",
    "e","m"," ","m","u","s","t"," ","s","c","a","l","e"," ","t","o"," ","h",
    "a","n","d","l","e"," ","p","e","a","k"," ","u","s","a","g","e"," ","a",
    "n","d"," ","m","a","i","n","t","a","i","n"," ","a","v","a","i","l","a",
    "b","i","l","i","t","y",".">>

TemplateEcommerce ==
  <<"U","s","e","r","s"," ","c","a","n"," ","b","r","o","w","s","e"," ","p",
    "r","o","d","u","c","t","s",","," ","s","e","a","r","c","h"," ","b","y",
    " ","k","e","y","w","o","r","d","s"," ","a","n","d"," ","f","i","l","t",
    "e","r","s",","," ","a","d","d"," ","i","t","e","m","s"," ","t","o"," ",
    "c","a","r","t",","," ","a","n","d"," ","c","h","e","c","k","o","u","t",
    "."," ","P","a","y","m","e","n","t","s"," ","m","u","s","t"," ","b","e",
    " ","p","r","o","c","e","s","s","e","d"," ","s","e","c","u","r","e","l",
    "y"," ","w","i","t","h"," ","r","e","c","e","i","p","t","s"," ","s","e",
    "n","t"," ","v","i","a"," ","e","m","a","i","l","."," ","A","d","m","i",
    "n","i","s","t","r","a","t","o","r","s"," ","c","a","n"," ","a","d","d",
    ","," ","e","d","i","t",","," ","a","n","d"," ","r","e","m","o","v","e",
    " ","p","r","o","d","u","c","t","s",","," ","m","a","n","a","g","e"," ",
    "i","n","v","e","n","t","o","r","y",","," ","a","n","d"," ","r","e","v",
    "i","e","w"," ","o","r","d","e","r","s","."," ","T","h","e"," ","s","i",
    "t","e"," ","s","h","o","u","l","d"," ","b","e"," ","r","e","s","p","o",
    "n","s","i","v","e",","," ","a","c","c","e","s","s","i","b","l","e",",",
    " ","a","n","d"," ","s","u","p","p","o","r","t"," ","p","r","o","m","o",
    "t","i","o","n","a","l"," ","d","i","s","c","o","u","n","t","s"," ","a",
    "n","d"," ","c","o","u","p","o","n"," ","c","o","d","e","s",".">>

TemplateAnalyticsDashboard ==
  <<"T","h","e"," ","a","p","p","l","i","c","a","t","i","o","n"," ","p","r",
    "o","v","i","d","e","s"," ","i","n","t","e","r","a","c","t","i","v","e",
    " ","c","h","a","r","t","s",","," ","f","i","l","t","e","r","s",","," ",
    "a","n","d"," ","e","x","p","o","r","t"," ","o","p","t","i","o","n","s",
    " ","f","o","r"," ","b","u","s","i","n","e","s","s"," ","K","P","I","s",
    "."," ","U","s","e","r","s"," ","c","a","n"," ","c","r","e","a","t","e",
    " ","c","u","s","t","o","m"," ","d","a","s","h","b","o","a","r","d","s",
    ","," ","s","c","h","e","d","u","l","e"," ","r","e","p","o","r","t","s",
    ","," ","a","n","d"," ","s","h","a","r","e"," ","i","n","s","i","g","h",
    "t","s"," ","w","i","t","h"," ","t","e","a","m","s","."," ","D","a","t",
    "a"," ","m","u","s","t"," ","r","e","f","r","e","s","h"," ","p","e","r",
    "i","o","d","i","c","a","l","l","y"," ","a","n","d"," ","m","a","i","n",
    "t","a","i","n"," ","a","c","c","u","r","a","c","y","."," ","A","c","c",
    "e","s","s"," ","c","o","n","t","r","o","l"," ","s","h","o","u","l","d",
    " ","r","e","s","t","r","i","c","t"," ","s","e","n","s","i","t","i","v",
    "e"," ","m","e","t","r","i","c","s"," ","t","o"," ","a","u","t","h","o",
    "r","i","z","e","d"," ","r","o","l","e","s",".">>
templates == {TemplateUserManagement, TemplateEcommerce, TemplateAnalyticsDashboard}

\* n words w separated by single spaces
Words(n, w) ==
  [i \in 1..(n * (Len(w) + 1) - 1) |->
     IF i % (Len(w) + 1) = 0 THEN " " ELSE w[i % (Len(w) + 1)]]

\* what the user types or pastes into the textarea
TypedTexts ==
  { <<>>,
    <<" ">>,
    <<"a", " ", "b">>,
    Words(minWords, <<"o">>),
    Words(minWords - 1, <<"o">>) \o <<" ", "v", "2">> }

\* texts on both sides of each validation rule
RuleTexts ==
  TypedTexts \cup
  { \* 49 words after a leading newline, the last one set off by a run of
    \* three whitespace characters and followed by a blank
    <<"\n">> \o Words(minWords - 2, <<"o">>) \o <<" ", "\n", "\t", "o", " ">>,
    \* 51 tokens: letters, a symbol and a digit
    Words(minWords, <<"o">>) \o <<" ", "#", "7">>,
    \* no letter at all: 50 tokens, and 2 tokens
    Words(minWords, <<"1">>),
    <<"1", " ", "#">> }

-----------------------------------------------------------------------------
(* State after construction *)

InputModes == {"text", "audio", "file"}

DefaultProjectInfo == [title |-> "", author |-> "", version |-> "1.0"]

\* what the user types into the three project fields
ProjectFieldValues == [title |-> {"", "Shop"}, author |-> {""}, version |-> {"1.0"}]

\* File handles the user can drop
Files == {"a.txt", "b.wav"}

Init ==
  /\ policy \in {"A", "B"}
  /\ inputType = "text"
  /\ textInput = <<>>
  /\ projectInfo = DefaultProjectInfo
  /\ isProcessing = FALSE
  /\ uploadedFiles = <<>>
  /\ results = Null
  /\ error = Null
  /\ validationErrors = <<>>
  /\ isRecording = FALSE
  /\ audioBlob = 0
  /\ audioUrl = 0
  /\ recordingTime = 0
  /\ mediaRecorderRef = 0
  /\ timerRef = 0
  /\ currentResults = Null
  /\ srsData = Null
  /\ requests = <<>>
  /\ srsRequests = <<>>
  /\ gumPending = 0
  /\ recorders = <<>>
  /\ timers = {}
  /\ urls = {}
  /\ outcome = "none"
  /\ faultEscaped = FALSE

uiVars == <<inputType, textInput, projectInfo, uploadedFiles>>
submitVars == <<isProcessing, results, error, validationErrors, currentResults,
                srsData, requests, srsRequests, outcome, faultEscaped>>
recordingVars == <<isRecording, audioBlob, audioUrl, recordingTime, mediaRecorderRef,
                   timerRef, gumPending, recorders, timers, urls>>

-----------------------------------------------------------------------------
(* Input mode, project info, text draft *)

\* a tab switch that also resets the draft of the tab left behind
setInputTypeClearing(m) ==
  /\ inputType' = m
  /\ textInput' = IF m = inputType THEN textInput ELSE <<>>
  /\ UNCHANGED <<policy, projectInfo, uploadedFiles, submitVars, recordingVars>>

\* onClick={() => setInputType(m)}
setInputType(m) ==
  /\ inputType' = m
  /\ UNCHANGED <<policy, textInput, projectInfo, uploadedFiles, submitVars, recordingVars>>

\* onChange={(e) => setProjectInfo(prev => ({ ...prev, [field]: e.target.value }))}
setProjectInfo(field, value) ==
  /\ projectInfo' = [projectInfo EXCEPT ![field] = value]
  /\ UNCHANGED <<policy, inputType, textInput, uploadedFiles, submitVars, recordingVars>>

\* the textarea is rendered in the text tab only
handleTextInputChange(newText) ==
  /\ inputType = "text"
  /\ textInput' = newText
  /\ validationErrors' = IF Trim(newText) # <<>> THEN validateTextInput(newText) ELSE <<>>
  /\ UNCHANGED <<policy, inputType, projectInfo, uploadedFiles, isProcessing, results,
                 error, currentResults, srsData, requests, srsRequests, outcome,
                 faultEscaped, recordingVars>>

\* setTextInput(prev => (prev?.trim() ? `${prev.trim()}\n\n${t.text}` : t.text))
templateText(prev, t) ==
  IF Trim(prev) # <<>> THEN Trim(prev) \o <<"\n", "\n">> \o t ELSE t

\* quick-template button: text tab of the part_001 revision
insertTemplate(t) ==
  /\ inputType = "text"
  /\ policy = "B"
  /\ textInput' = templateText(textInput, t)
  /\ UNCHANGED <<policy, inputType, projectInfo, uploadedFiles, submitVars, recordingVars>>

-----------------------------------------------------------------------------
(* File staging queue *)

\* Date.now() + Math.random(): a double near 2^40 has 12 fraction bits, so the
\* sum is one of finitely many values and two calls may return the same one
IdValues == 1..MaxId

\* acceptedFiles.map(file => ({file, id, status: 'pending'}))
newFiles(acceptedFiles, ids) ==
  [i \in 1..Len(acceptedFiles) |->
     [file |-> acceptedFiles[i], id |-> ids[i], status |-> "pending"]]

\* the dropzone is rendered in the file tab only
onDrop(acceptedFiles, ids) ==
  /\ inputType = "file"
  /\ uploadedFiles' = uploadedFiles \o newFiles(acceptedFiles, ids)
  /\ UNCHANGED <<policy, inputType, textInput, projectInfo, submitVars, recordingVars>>

\* setUploadedFiles(prev => prev.filter(f => f.id !== fileId))
removeFile(fileId) ==
  /\ uploadedFiles' = SelectSeq(uploadedFiles, LAMBDA f : f.id # fileId)
  /\ UNCHANGED <<policy, inputType, textInput, projectInfo, submitVars, recordingVars>>

\* the X button of a staged file: file tab, one button per entry of the queue
clickRemove(fileId) ==
  /\ inputType = "file"
  /\ \E i \in 1..Len(uploadedFiles) : uploadedFiles[i].id = fileId
  /\ removeFile(fileId)

-----------------------------------------------------------------------------
(* Recording lifecycle *)

MsgMicDenied == "Microphone access denied. Please allow microphone access to record audio."

\* Start Recording button: audio tab, no clip, not recording.  The handler
\* suspends at once in getUserMedia.
startRecording ==
  /\ inputType = "audio"
  /\ audioBlob = 0
  /\ ~isRecording
  /\ gumPending' = gumPending + 1
  /\ UNCHANGED <<policy, uiVars, submitVars, isRecording, audioBlob, audioUrl,
                 recordingTime, mediaRecorderRef, timerRef, recorders, timers, urls>>

\* getUserMedia resolves: the rest of the try block
micGranted ==
  /\ gumPending > 0
  /\ gumPending' = gumPending - 1
  /\ recorders' = Append(recorders, [state |-> "recording", streamOpen |-> TRUE])
  /\ mediaRecorderRef' = Len(recorders) + 1
  /\ isRecording' = TRUE
  /\ recordingTime' = 0
  /\ timerRef' = Len(recorders) + 1
  /\ timers' = timers \cup {Len(recorders) + 1}
  /\ UNCHANGED <<policy, uiVars, submitVars, audioBlob, audioUrl, urls>>

\* getUserMedia resolves and a later statement of the try block throws: the
\* catch block runs with the stream acquired and its tracks never stopped.
\*   "construct": new MediaRecorder(stream) throws (MediaRecorder is missing
\*                or refuses the stream); no recorder exists
\*   "start":     mediaRecorder.start() throws (NotSupportedError,
\*                SecurityError); mediaRecorderRef.current is assigned already
StartSteps == {"construct", "start"}

recorderFailed(step) ==
  /\ gumPending > 0
  /\ gumPending' = gumPending - 1
  /\ recorders' = Append(recorders,
                         [state |-> IF step = "construct" THEN "none" ELSE "unstarted",
                          streamOpen |-> TRUE])
  /\ mediaRecorderRef' = IF step = "start" THEN Len(recorders) + 1 ELSE mediaRecorderRef
  /\ error' = Str(MsgMicDenied)
  /\ UNCHANGED <<policy, uiVars, isProcessing, results, validationErrors, currentResults,
                 srsData, requests, srsRequests, outcome, faultEscaped, isRecording,
                 audioBlob, audioUrl, recordingTime, timerRef, timers, urls>>

\* getUserMedia rejects: the catch block
micDenied ==
  /\ gumPending > 0
  /\ gumPending' = gumPending - 1
  /\ error' = Str(MsgMicDenied)
  /\ UNCHANGED <<policy, uiVars, isProcessing, results, validationErrors, currentResults,
                 srsData, requests, srsRequests, outcome, faultEscaped, isRecording,
                 audioBlob, audioUrl, recordingTime, mediaRecorderRef, timerRef,
                 recorders, timers, urls>>

\* setInterval callback: setRecordingTime(prev => prev + 1)
tick(t) ==
  /\ t \in timers
  /\ recordingTime' = recordingTime + 1
  /\ UNCHANGED <<policy, uiVars, submitVars, isRecording, audioBlob, audioUrl,
                 mediaRecorderRef, timerRef, gumPending, recorders, timers, urls>>

\* Stop Recording button: audio tab, no clip, recording
stopRecording ==
  /\ inputType = "audio"
  /\ audioBlob = 0
  /\ isRecording
  /\ IF mediaRecorderRef # 0 /\ recorders[mediaRecorderRef].state = "recording"
     THEN /\ recorders' = [recorders EXCEPT ![mediaRecorderRef].state = "stopping"]
          /\ isRecording' = FALSE
          /\ timers' = timers \ {timerRef}
     ELSE \* no recorder, or stop() of an inactive recorder throws InvalidStateError
          UNCHANGED <<recorders, isRecording, timers>>
  /\ UNCHANGED <<policy, uiVars, submitVars, audioBlob, audioUrl, recordingTime,
                 mediaRecorderRef, timerRef, gumPending, urls>>

\* mediaRecorder.onstop of recorder r
onstop(r) ==
  /\ r \in 1..Len(recorders)
  /\ recorders[r].state = "stopping"
  /\ recorders' = [recorders EXCEPT ![r] = [state |-> "inactive", streamOpen |-> FALSE]]
  /\ audioBlob' = r
  /\ audioUrl' = r
  /\ urls' = urls \cup {r}
  /\ UNCHANGED <<policy, uiVars, submitVars, isRecording, recordingTime,
                 mediaRecorderRef, timerRef, gumPending, timers>>

\* the X button beside the captured clip: audio tab, clip present
clearRecording ==
  /\ inputType = "audio"
  /\ audioBlob # 0
  /\ audioBlob' = 0
  /\ audioUrl' = 0
  /\ urls' = IF audioUrl # 0 THEN urls \ {audioUrl} ELSE urls
  /\ recordingTime' = 0
  /\ UNCHANGED <<policy, uiVars, submitVars, isRecording, mediaRecorderRef, timerRef,
                 gumPending, recorders, timers>>

-----------------------------------------------------------------------------
(* Submission orchestrator *)

MsgFixValidation == "Please fix validation errors before processing"
MsgNoInput == "Please provide text input, record audio, or upload files"
MsgFilesFailed == "Validation failed for uploaded files"
MsgAudioFailed == "Audio content validation failed"
MsgValidationFailed == "Validation failed"
MsgGeneric == "An error occurred"

\* x?.name
OptGet(x, name) == IF CanRead(x) THEN Get(x, name) ELSE Undefined

\* String(x) as a template literal and Array.prototype.join convert a value
ToStr(x) == CASE x.t = "str" -> x.v
              [] x.t = "null" -> "null"
              [] x.t = "undefined" -> "undefined"
              [] x.t = "arr" -> "[array]"
              [] OTHER -> "[object Object]"

\* q.join(sep): null and undefined elements become the empty string
RECURSIVE Join(_, _)
Join(q, sep) ==
  LET el(x) == IF CanRead(x) THEN ToStr(x) ELSE ""
  IN IF q = <<>> THEN ""
     ELSE IF Len(q) = 1 THEN el(q[1])
     ELSE el(q[1]) \o sep \o Join(Tail(q), sep)

\* item.errors.join(', ') evaluates: item and item.errors can be read and
\* item.errors has a join method (it is an array)
CanFormatItem(item) == CanRead(item) /\ IsArray(Get(item, "errors"))

\* the detail line with the messages joined by a bare comma
formatItemBareComma(item) ==
  Str(ToStr(Get(item, "file")) \o ": " \o Join(Get(item, "errors").v, ","))

\* `${item.file}: ${item.errors.join(', ')}`
formatItem(item) == Str(ToStr(Get(item, "file")) \o ": " \o Join(Get(item, "errors").v, ", "))

\* a catch block whose list and string branches never show the service message
catchBlockOwnHeadline(err, curError, curValidationErrors) ==
  LET data == OptGet(Get(err, "response"), "data")
      validationData == OptGet(data, "validation_errors")
      keep == [threw |-> FALSE, error |-> curError, validationErrors |-> curValidationErrors]
      throw == [threw |-> TRUE, error |-> curError, validationErrors |-> curValidationErrors]
  IN IF Truthy(validationData)
     THEN IF IsArray(validationData) /\ Len(validationData.v) > 0
          THEN IF ~CanRead(validationData.v[1])
               THEN throw
               ELSE IF Truthy(Get(validationData.v[1], "file"))
                       /\ Truthy(Get(validationData.v[1], "errors"))
                    THEN IF \A i \in 1..Len(validationData.v) :
                                CanFormatItem(validationData.v[i])
                         THEN [threw |-> FALSE,
                               error |-> Str(MsgFilesFailed),
                               validationErrors |->
                                 [i \in 1..Len(validationData.v) |->
                                    formatItem(validationData.v[i])]]
                         ELSE throw
                    ELSE [threw |-> FALSE,
                          error |-> Str(MsgAudioFailed),
                          validationErrors |-> validationData.v]
          ELSE IF validationData.t = "str"
               THEN [threw |-> FALSE,
                     error |-> Str(MsgValidationFailed),
                     validationErrors |-> <<validationData>>]
               ELSE keep
     ELSE [threw |-> FALSE,
           error |-> OrElse(OrElse(OptGet(data, "error"), Get(err, "message")),
                            Str(MsgGeneric)),
           validationErrors |-> curValidationErrors]

\* The catch block of processRequirements on the caught value err, from the
\* error and validationErrors the try block left.  threw: the block itself
\* raised a TypeError, which leaves the handler after its finally block.
catchBlock(err, curError, curValidationErrors) ==
  LET data == OptGet(Get(err, "response"), "data")
      validationData == OptGet(data, "validation_errors")
      keep == [threw |-> FALSE, error |-> curError, validationErrors |-> curValidationErrors]
      throw == [threw |-> TRUE, error |-> curError, validationErrors |-> curValidationErrors]
  IN IF Truthy(validationData)
     THEN IF IsArray(validationData) /\ Len(validationData.v) > 0
          THEN IF ~CanRead(validationData.v[1])
               THEN throw
               ELSE IF Truthy(Get(validationData.v[1], "file"))
                       /\ Truthy(Get(validationData.v[1], "errors"))
                    THEN IF \A i \in 1..Len(validationData.v) :
                                CanFormatItem(validationData.v[i])
                         THEN [threw |-> FALSE,
                               error |-> Str(MsgFilesFailed),
                               validationErrors |->
                                 [i \in 1..Len(validationData.v) |->
                                    formatItem(validationData.v[i])]]
                         ELSE throw
                    ELSE [threw |-> FALSE,
                          error |-> OrElse(Get(data, "error"), Str(MsgAudioFailed)),
                          validationErrors |-> validationData.v]
          ELSE IF validationData.t = "str"
               THEN [threw |-> FALSE,
                     error |-> OrElse(Get(data, "error"), Str(MsgValidationFailed)),
                     validationErrors |-> <<validationData>>]
               ELSE keep
     ELSE [threw |-> FALSE,
           error |-> OrElse(OrElse(OptGet(data, "error"), Get(err, "message")),
                            Str(MsgGeneric)),
           validationErrors |-> curValidationErrors]

\* the modality priority text, clip, files, whatever tab is selected
payloadKindByPriority ==
  IF Trim(textInput) # <<>> THEN "text"
  ELSE IF audioBlob # 0 THEN "audio"
  ELSE IF Len(uploadedFiles) > 0 THEN "files"
  ELSE "none"

\* the last branch taken without looking at the queue
payloadKindNoLengthCheck ==
  IF inputType = "text" /\ Trim(textInput) # <<>> THEN "text"
  ELSE IF inputType = "audio" /\ audioBlob # 0 THEN "audio"
  ELSE "files"

\* which request shape the try block builds from the current render
payloadKind ==
  IF inputType = "text" /\ Trim(textInput) # <<>> THEN "text"
  ELSE IF inputType = "audio" /\ audioBlob # 0 THEN "audio"
  ELSE IF Len(uploadedFiles) > 0 THEN "files"
  ELSE "none"

\* the axios.post call of each branch
buildRequest(kind) ==
  CASE kind = "text" ->
         [url |-> "/api/process-single", type |-> "text", content |-> textInput,
          project_info |-> projectInfo]
    [] kind = "audio" ->
         [url |-> "/api/process-audio", audio |-> audioBlob, filename |-> "recording.wav",
          project_info |-> projectInfo]
    [] OTHER ->
         [url |-> "/api/process-batch",
          files |-> [i \in 1..Len(uploadedFiles) |-> uploadedFiles[i].file],
          project_info |-> projectInfo]

\* the guard without its isProcessing disjunct
buttonDisabledNoFlag ==
  \/ (Trim(textInput) = <<>> /\ Len(uploadedFiles) = 0 /\ audioBlob = 0)
  \/ (inputType = "text" /\ Len(validationErrors) > 0)

\* disabled={isProcessing || (!textInput.trim() && uploadedFiles.length === 0 && !audioBlob)
\*           || (inputType === 'text' && validationErrors.length > 0)}
buttonDisabled ==
  \/ isProcessing
  \/ (Trim(textInput) = <<>> /\ Len(uploadedFiles) = 0 /\ audioBlob = 0)
  \/ (inputType = "text" /\ Len(validationErrors) > 0)

\* the submit without its validation step
mustAbortNever == FALSE

\* if (inputType === 'text' && textInput.trim()) { const errors = validateTextInput(textInput);
\*   if (errors.length > 0) ... return
mustAbort ==
  inputType = "text" /\ Trim(textInput) # <<>> /\ Len(validateTextInput(textInput)) > 0

\* no finally block: the flag keeps the value the handler set at its start
finallySkipped == TRUE

\* finally { setIsProcessing(false) }
finallyIsProcessing == FALSE

\* processRequirements up to its await (or to its end when it does not get there)
processRequirements ==
  /\ IF mustAbort
     THEN /\ error' = Str(MsgFixValidation)
          /\ validationErrors' = <<>>
          /\ isProcessing' = finallyIsProcessing
          /\ outcome' = "validation_failed"
          /\ UNCHANGED <<requests, faultEscaped>>
     ELSE IF payloadKind # "none"
     THEN /\ requests' = Append(requests, buildRequest(payloadKind))
          /\ isProcessing' = TRUE
          /\ error' = Null
          /\ validationErrors' = <<>>
          /\ outcome' = "pending"
          /\ UNCHANGED faultEscaped
     ELSE LET c == catchBlock(Obj([message |-> Str(MsgNoInput)]), Null, <<>>)
          IN /\ error' = c.error
             /\ validationErrors' = c.validationErrors
             /\ isProcessing' = finallyIsProcessing
             /\ outcome' = IF c.threw THEN "fault" ELSE "no_input"
             /\ faultEscaped' = (faultEscaped \/ c.threw)
             /\ UNCHANGED requests
  /\ UNCHANGED <<policy, uiVars, results, currentResults, srsData, srsRequests,
                 recordingVars>>

\* Process Requirements button
clickProcess ==
  /\ ~buttonDisabled
  /\ processRequirements

RemoveAt(q, i) == SubSeq(q, 1, i - 1) \o SubSeq(q, i + 1, Len(q))

\* the whole response wrapped, whatever its shape
requirementsArrayWrapped(resultsData) == <<resultsData>>

\* generateSRS: the results list it posts
requirementsArray(resultsData) ==
  IF IsArray(resultsData) THEN resultsData.v
  ELSE IF Truthy(Get(resultsData, "results")) /\ IsArray(Get(resultsData, "results"))
       THEN Get(resultsData, "results").v
       ELSE IF Truthy(Get(resultsData, "status")) THEN <<resultsData>>
            ELSE <<resultsData>>

\* generateSRS up to its await; projectInfo is the one of the render that
\* created the handler
srsRequest(resultsData, info) ==
  [url |-> "/api/generate-srs", results |-> requirementsArray(resultsData),
   project_info |-> info]

\* response.data.status === 'completed'
chains(data) == CanRead(data) /\ Get(data, "status") = Str("completed")

MsgTypeError == "Cannot read properties of null (reading 'status')"

\* a success path that empties the text draft and the file queue it has sent
processResolvedClearing(i, data) ==
  /\ i \in 1..Len(requests)
  /\ requests' = RemoveAt(requests, i)
  /\ results' = data
  /\ currentResults' = data
  /\ srsRequests' = IF chains(data)
                    THEN Append(srsRequests, srsRequest(data, requests[i].project_info))
                    ELSE srsRequests
  /\ IF CanRead(data)
     THEN /\ outcome' = "success"
          /\ UNCHANGED <<error, validationErrors, faultEscaped>>
     ELSE LET c == catchBlock(Obj([message |-> Str(MsgTypeError)]), error, validationErrors)
          IN /\ error' = c.error
             /\ validationErrors' = c.validationErrors
             /\ outcome' = IF c.threw THEN "fault" ELSE "failed"
             /\ faultEscaped' = (faultEscaped \/ c.threw)
  /\ isProcessing' = finallyIsProcessing
  /\ textInput' = <<>>
  /\ uploadedFiles' = <<>>
  /\ UNCHANGED <<policy, inputType, projectInfo, srsData, recordingVars>>

\* the awaited post of request i resolves with response.data = data
processResolved(i, data) ==
  /\ i \in 1..Len(requests)
  /\ requests' = RemoveAt(requests, i)
  /\ results' = data
  /\ currentResults' = data
  /\ srsRequests' = IF chains(data)
                    THEN Append(srsRequests, srsRequest(data, requests[i].project_info))
                    ELSE srsRequests
  /\ IF CanRead(data)
     THEN /\ outcome' = "success"
          /\ UNCHANGED <<error, validationErrors, faultEscaped>>
     ELSE LET c == catchBlock(Obj([message |-> Str(MsgTypeError)]), error, validationErrors)
          IN /\ error' = c.error
             /\ validationErrors' = c.validationErrors
             /\ outcome' = IF c.threw THEN "fault" ELSE "failed"
             /\ faultEscaped' = (faultEscaped \/ c.threw)
  /\ isProcessing' = finallyIsProcessing
  /\ UNCHANGED <<policy, uiVars, srsData, recordingVars>>

\* the awaited post of request i rejects with err
processRejected(i, err) ==
  /\ i \in 1..Len(requests)
  /\ requests' = RemoveAt(requests, i)
  /\ LET c == catchBlock(err, error, validationErrors)
     IN /\ error' = c.error
        /\ validationErrors' = c.validationErrors
        /\ outcome' = IF c.threw THEN "fault" ELSE "failed"
        /\ faultEscaped' = (faultEscaped \/ c.threw)
  /\ isProcessing' = finallyIsProcessing
  /\ UNCHANGED <<policy, uiVars, results, currentResults, srsData, srsRequests,
                 recordingVars>>

\* generateSRS: the post of derived-document request j resolves; onSRSGenerated(doc)
srsResolved(j, doc) ==
  /\ j \in 1..Len(srsRequests)
  /\ srsRequests' = RemoveAt(srsRequests, j)
  /\ srsData' = doc
  /\ UNCHANGED <<policy, uiVars, isProcessing, results, error, validationErrors,
                 currentResults, requests, outcome, faultEscaped, recordingVars>>

\* a catch block that surfaces the failure to the user
srsRejectedSurfaced(j) ==
  /\ j \in 1..Len(srsRequests)
  /\ srsRequests' = RemoveAt(srsRequests, j)
  /\ error' = Str("SRS generation failed")
  /\ UNCHANGED <<policy, uiVars, isProcessing, results, validationErrors,
                 currentResults, srsData, requests, outcome, faultEscaped, recordingVars>>

\* generateSRS: the post rejects; the catch block only logs
srsRejected(j) ==
  /\ j \in 1..Len(srsRequests)
  /\ srsRequests' = RemoveAt(srsRequests, j)
  /\ UNCHANGED <<policy, uiVars, isProcessing, results, error, validationErrors,
                 currentResults, srsData, requests, outcome, faultEscaped, recordingVars>>

-----------------------------------------------------------------------------
(* What the two remote contracts answer *)

ResultCompleted == Obj([status |-> Str("completed")])
ResultPending == Obj([status |-> Str("pending")])
ResultBatch == Obj([status |-> Str("completed"),
                    results |-> Arr(<<ResultCompleted, ResultPending>>)])
ResultBatchPending == Obj([status |-> Str("pending"), results |-> Arr(<<ResultPending>>)])
ResultEmptyBatch == Obj([status |-> Str("completed"), results |-> Arr(<<>>)])
ResultOddBatch == Obj([status |-> Str("completed"), results |-> Str("none")])
ResultList == Arr(<<ResultCompleted>>)
ResultNoStatus == Obj([id |-> Str("r1")])

SuccessPayloads == {ResultCompleted, ResultPending, ResultBatch, ResultBatchPending,
                    ResultEmptyBatch, ResultOddBatch, ResultList, ResultNoStatus, Null}

AxiosError(data) == Obj([message |-> Str("Request failed with status code 400"),
                         response |-> Obj([data |-> data])])
NetworkError == Obj([message |-> Str("Network Error")])
FileItem(f, msgs) == Obj([file |-> Str(f), errors |-> Arr(msgs)])

ErrPerFile == AxiosError(Obj([validation_errors |->
                Arr(<<FileItem("a.txt", <<Str("too short"), Str("no letters")>>),
                      FileItem("b.wav", <<Str("too short")>>)>>)]))
ErrOneFile == AxiosError(Obj([validation_errors |->
                Arr(<<FileItem("a.txt", <<Str("too short")>>)>>)]))
ErrFlat == AxiosError(Obj([error |-> Str("Audio rejected"),
                           validation_errors |-> Arr(<<Str("too short"), Str("noisy")>>)]))
ErrFlatNoMessage == AxiosError(Obj([validation_errors |-> Arr(<<Str("too short")>>)]))
ErrString == AxiosError(Obj([validation_errors |-> Str("bad audio")]))
ErrStringNamed == AxiosError(Obj([error |-> Str("Text rejected"),
                                  validation_errors |-> Str("bad text")]))
ErrEmptyList == AxiosError(Obj([error |-> Str("Rejected"), validation_errors |-> Arr(<<>>)]))
ErrObject == AxiosError(Obj([validation_errors |-> Obj([text |-> Str("too short")])]))
ErrMixed == AxiosError(Obj([validation_errors |->
              Arr(<<FileItem("a.txt", <<Str("too short")>>), Str("b.wav unreadable")>>)]))
ErrNullItem == AxiosError(Obj([validation_errors |-> Arr(<<Null>>)]))
ErrService == AxiosError(Obj([error |-> Str("Internal server error")]))
ErrNoBody == AxiosError(Null)
ErrNoText == Obj([message |-> Str("")])

FailurePayloads == {ErrPerFile, ErrOneFile, ErrFlat, ErrFlatNoMessage, ErrString,
                    ErrStringNamed, ErrEmptyList,
                    ErrObject, ErrMixed, ErrNullItem, ErrService, ErrNoBody,
                    NetworkError, ErrNoText}

SrsDocument == Obj([title |-> Str("SRS")])
SrsDocuments == {SrsDocument}

\* the document the service derives from the results list and the project
\* info of the request it answers
SrsDocumentFor(req) ==
  Obj([title |-> Str("SRS"), project_info |-> req.project_info,
       requirements |-> Arr(req.results)])

-----------------------------------------------------------------------------
(* Specifications.  The caps that keep the state space finite are stated  *)
(* here, beside the action they bound, and not in the handlers.           *)

RoomToSubmit == Len(requests) < MaxInFlight
RoomToChain(data) == chains(data) => Len(srsRequests) < MaxSrsInFlight

\* texts typed in the submission specifications: empty, too short, valid
ValidText == Words(minWords, <<"o">>)
FlowTexts ==
  { <<>>,
    <<"a", " ", "b">>,
    ValidText }

\* The three modalities and the submission
Next ==
  \/ \E m \in InputModes : setInputType(m)
  \/ \E t \in FlowTexts : handleTextInputChange(t)
  \/ (Len(uploadedFiles) < MaxStaged /\ onDrop(<<"a.txt">>, <<1>>))
  \/ \E id \in IdValues : clickRemove(id)
  \/ (gumPending + Len(recorders) < MaxClips /\ startRecording)
  \/ micGranted
  \/ stopRecording
  \/ \E r \in 1..Len(recorders) : onstop(r)
  \/ clearRecording
  \/ (RoomToSubmit /\ clickProcess)
  \/ \E i \in 1..Len(requests) : \E d \in {ResultCompleted, ResultPending} :
       RoomToChain(d) /\ processResolved(i, d)
  \/ \E i \in 1..Len(requests) : processRejected(i, NetworkError)
  \/ \E j \in 1..Len(srsRequests) : \E d \in SrsDocuments : srsResolved(j, d)
  \/ \E j \in 1..Len(srsRequests) : srsRejected(j)

Spec == Init /\ [][Next]_vars

\* processRequirements invoked as the operation it is, whatever the button shows
NextCall ==
  \/ \E m \in InputModes : setInputType(m)
  \/ \E t \in {<<>>, <<" ">>, ValidText} : handleTextInputChange(t)
  \/ (Len(uploadedFiles) < MaxStaged /\ onDrop(<<"a.txt">>, <<1>>))
  \/ \E id \in IdValues : clickRemove(id)
  \/ (gumPending + Len(recorders) < MaxClips /\ startRecording)
  \/ micGranted
  \/ stopRecording
  \/ \E r \in 1..Len(recorders) : onstop(r)
  \/ clearRecording
  \/ (RoomToSubmit /\ processRequirements)
  \/ \E i \in 1..Len(requests) : processRejected(i, NetworkError)

SpecCall == Init /\ [][NextCall]_vars

\* The form: project fields, text draft, quick templates, local and remote
\* validation
NextText ==
  \/ \E m \in {"text", "file"} : setInputType(m)
  \/ \E f \in DOMAIN ProjectFieldValues : \E v \in ProjectFieldValues[f] : setProjectInfo(f, v)
  \/ \E t \in TypedTexts : handleTextInputChange(t)
  \/ \E t \in templates :
       Len(templateText(textInput, t)) <= MaxTextLen /\ insertTemplate(t)
  \/ (Len(uploadedFiles) < MaxStaged /\ onDrop(<<"a.txt">>, <<1>>))
  \/ (RoomToSubmit /\ clickProcess)
  \/ \E i \in 1..Len(requests) : RoomToChain(ResultPending) /\ processResolved(i, ResultPending)
  \/ \E i \in 1..Len(requests) : \E e \in {NetworkError, ErrPerFile} : processRejected(i, e)

SpecText == Init /\ [][NextText]_vars

\* The text draft under both validation policies: typing, and submitting what
\* was typed
NextTyping ==
  \/ \E m \in {"text", "file"} : setInputType(m)
  \/ \E t \in RuleTexts : handleTextInputChange(t)
  \/ (RoomToSubmit /\ clickProcess)
  \/ \E i \in 1..Len(requests) : RoomToChain(ResultPending) /\ processResolved(i, ResultPending)
  \/ \E i \in 1..Len(requests) : processRejected(i, NetworkError)

SpecTyping == Init /\ [][NextTyping]_vars

\* Every shape the two remote contracts answer with
NextShapes ==
  \/ \E t \in {<<>>, ValidText} : handleTextInputChange(t)
  \/ (RoomToSubmit /\ clickProcess)
  \/ \E i \in 1..Len(requests) : \E d \in SuccessPayloads :
       RoomToChain(d) /\ processResolved(i, d)
  \/ \E i \in 1..Len(requests) : \E e \in FailurePayloads : processRejected(i, e)
  \/ \E j \in 1..Len(srsRequests) : \E d \in SrsDocuments : srsResolved(j, d)
  \/ \E j \in 1..Len(srsRequests) : srsRejected(j)

SpecShapes == Init /\ [][NextShapes]_vars

\* Submissions that overlap the derived-document calls of earlier ones: each
\* call is answered, in any order, with the document of its own request
NextChain ==
  \/ handleTextInputChange(ValidText)
  \/ (RoomToSubmit /\ clickProcess)
  \/ \E i \in 1..Len(requests) : \E d \in {ResultCompleted, ResultBatch, ResultPending} :
       /\ chains(d) => Len(srsRequests) < MaxChained
       /\ processResolved(i, d)
  \/ \E i \in 1..Len(requests) : processRejected(i, NetworkError)
  \/ \E j \in 1..Len(srsRequests) : srsResolved(j, SrsDocumentFor(srsRequests[j]))
  \/ \E j \in 1..Len(srsRequests) : srsRejected(j)

SpecChain == Init /\ [][NextChain]_vars

\* The recording lifecycle: clicks on Start, Stop and X interleaved with the
\* microphone grant, the recorder's onstop event and the one-second tick
NextRecording ==
  \/ \E m \in {"text", "audio"} : setInputType(m)
  \/ (gumPending + Len(recorders) < MaxStarts /\ startRecording)
  \/ micGranted
  \/ micDenied
  \/ \E step \in StartSteps : recorderFailed(step)
  \/ \E t \in timers : (recordingTime < MaxTime /\ tick(t))
  \/ stopRecording
  \/ \E r \in 1..Len(recorders) : onstop(r)
  \/ clearRecording

SpecRecording == Init /\ [][NextRecording]_vars

\* what one drop delivers: one or two files, the same file twice included
DropBatches ==
  {<<f>> : f \in Files} \cup {<<f, g>> : f \in Files, g \in Files}

\* The file staging queue: drops with whatever ids the clock and the random
\* generator give, removeFile as the operation it is
NextFiles ==
  \/ \E m \in {"text", "file"} : setInputType(m)
  \/ \E fs \in DropBatches : \E ids \in [1..Len(fs) -> IdValues] :
       Len(uploadedFiles) + Len(fs) <= MaxFiles /\ onDrop(fs, ids)
  \/ \E id \in IdValues : removeFile(id)

SpecFiles == Init /\ [][NextFiles]_vars

-----------------------------------------------------------------------------
(* Properties *)

ExitOutcomes == {"success", "validation_failed", "no_input", "failed", "fault"}

\* C1: at most one processing request is in flight in every reachable state,
\* whatever the user clicks: the Process button cannot start a second
\* processRequirements while the request of an earlier one is unresolved.
C1_SingleFlight == Len(requests) <= 1

\* a request is in flight while input is staged that the button would accept
C1_Witness ==
  /\ Len(requests) = 1
  /\ isProcessing
  /\ payloadKind # "none"
  /\ ~buttonDisabledNoFlag

\* C2: the processing flag is set exactly while a request is in flight: every
\* invocation that has ended (success, local validation failure, no input,
\* remote failure) has cleared it, so the flag never keeps the button disabled
\* after a submit has resolved.
C2_FlagClearedOnExit ==
  /\ isProcessing <=> Len(requests) > 0
  /\ outcome \in ExitOutcomes => ~isProcessing
  /\ outcome = "pending" => isProcessing

\* a submit has failed remotely, the flag is clear and the button is enabled again
C2_Witness ==
  /\ outcome = "failed"
  /\ error = Str("Network Error")
  /\ ~isProcessing
  /\ ~buttonDisabled

\* staged data of each modality, as the claims speak of it
TextStaged == Trim(textInput) # <<>> /\ validateTextInput(textInput) = <<>>
ClipStaged == audioBlob # 0
FilesStaged == Len(uploadedFiles) > 0
AllStaged == ClipStaged /\ FilesStaged /\ TextStaged
NothingStaged == Trim(textInput) = <<>> /\ audioBlob = 0 /\ Len(uploadedFiles) = 0
StagedCount ==
  (IF TextStaged THEN 1 ELSE 0) + (IF ClipStaged THEN 1 ELSE 0) + (IF FilesStaged THEN 1 ELSE 0)

UrlText == "/api/process-single"
UrlAudio == "/api/process-audio"
UrlFiles == "/api/process-batch"

\* this step issues a processing request; Issued is that request
Issues == Len(requests') = Len(requests) + 1
Issued == requests'[Len(requests')]

\* C3 as stated: with valid text, a clip and files staged together, a submit
\* sends the text-shaped request whichever tab is selected.
C3_TextFirstWhateverTab ==
  [][(AllStaged /\ clickProcess) => (Issues /\ Issued.url = UrlText)]_vars

\* C3 amended: with valid text, a clip and files staged together, a submit
\* sends the request of the selected tab: text in the Text tab, the clip in
\* the Audio tab, the files in the File tab.
C3_SelectedTabDecides ==
  [][(AllStaged /\ clickProcess) =>
       /\ Issues
       /\ Issued.url = (CASE inputType = "text" -> UrlText
                          [] inputType = "audio" -> UrlAudio
                          [] OTHER -> UrlFiles)]_vars

\* all three modalities are staged and the clip is what was sent
C3_Witness ==
  /\ AllStaged
  /\ inputType = "audio"
  /\ outcome = "pending"
  /\ Len(requests) = 1
  /\ requests[1].url = UrlAudio

\* C4: a submit with blank text, no clip and no files ends with the no-input
\* error as data and issues no request, neither processing nor derived-document.
C4_NoInputNoNetwork ==
  [][(NothingStaged /\ processRequirements) =>
       /\ error' = Str(MsgNoInput)
       /\ outcome' = "no_input"
       /\ ~isProcessing'
       /\ requests' = requests
       /\ srsRequests' = srsRequests]_vars

\* nothing is staged and the latest submit ended with the no-input error
C4_Witness ==
  /\ NothingStaged
  /\ outcome = "no_input"
  /\ error = Str(MsgNoInput)
  /\ requests = <<>>
  /\ srsRequests = <<>>

\* C5: a text-shaped request carries the draft as it was validated in the same
\* submit, with no violation; a submit that finds a violation aborts with the
\* local validation failure and issues no request.
C5_TextSentOnlyIfValid ==
  [][/\ (Issues /\ Issued.url = UrlText) =>
          (Issued.content = textInput /\ validateTextInput(textInput) = <<>>)
     /\ (inputType = "text" /\ Trim(textInput) # <<>>
            /\ validateTextInput(textInput) # <<>> /\ clickProcess) =>
          /\ requests' = requests
          /\ srsRequests' = srsRequests
          /\ error' = Str(MsgFixValidation)
          /\ ~isProcessing']_vars

\* a submit has aborted on a draft that fails validation
C5_Witness ==
  /\ outcome = "validation_failed"
  /\ error = Str(MsgFixValidation)
  /\ inputType = "text"
  /\ validateTextInput(textInput) # <<>>
  /\ requests = <<>>

\* C6 as stated: a request is issued only when exactly one modality is staged.
C6_ExactlyOneStaged == [][Issues => StagedCount = 1]_vars

\* C6 amended: a request is issued only when at least one modality is staged,
\* the one that is sent among them: a text request needs a non-blank valid
\* draft, an audio request a captured clip, a files request a non-empty queue.
\* Other modalities may be staged at the same time.
C6_SentModalityStaged ==
  [][Issues =>
       /\ StagedCount >= 1
       /\ Issued.url = UrlText => TextStaged
       /\ Issued.url = UrlAudio => ClipStaged
       /\ Issued.url = UrlFiles => FilesStaged]_vars

\* a files request is in flight while a valid draft is staged as well
C6_Witness ==
  /\ outcome = "pending"
  /\ Len(requests) = 1
  /\ requests[1].url = UrlFiles
  /\ TextStaged
  /\ FilesStaged
  /\ inputType = "file"

\* C7 (refuted by the code): the stored validation result always is the one
\* of the current draft: validate(text) when the draft is not blank, empty
\* when it is; never that of an earlier text, an emptied list or the detail
\* lines of a remote failure.
C7_ValidationFresh ==
  validationErrors = IF Trim(textInput) # <<>> THEN validateTextInput(textInput) ELSE <<>>

\* the status field of a response equals "completed"
StatusCompleted(d) == d.t = "obj" /\ "status" \in DOMAIN d.v /\ d.v.status = Str("completed")

\* the results list the derived-document contract is to receive for response d
ExpectedResultsList(d) ==
  IF d.t = "arr" THEN d.v
  ELSE IF d.t = "obj" /\ "results" \in DOMAIN d.v /\ d.v.results.t = "arr"
       THEN d.v.results.v
       ELSE <<d>>

\* C8: a resolved processing request adds exactly one derived-document request
\* when the status field of its response equals "completed" and none
\* otherwise; the results list of that request is the response itself if it
\* is a list, else its nested results list if it has one, else the
\* one-element list holding the response.
C8_ChainsIffCompleted ==
  [][\A i \in 1..Len(requests) : \A d \in SuccessPayloads :
       processResolved(i, d) =>
         IF StatusCompleted(d)
         THEN /\ Len(srsRequests') = Len(srsRequests) + 1
              /\ SubSeq(srsRequests', 1, Len(srsRequests)) = srsRequests
              /\ srsRequests'[Len(srsRequests')].results = ExpectedResultsList(d)
         ELSE srsRequests' = srsRequests]_vars

\* a batch response has chained one request that carries its nested list
C8_Witness ==
  /\ results = ResultBatch
  /\ outcome = "success"
  /\ Len(srsRequests) = 1
  /\ srsRequests[1].results = <<ResultCompleted, ResultPending>>

\* C9: a rejected derived-document request changes nothing of the submission:
\* the recorded result, the error, the processing flag and the outcome stay
\* as they are, and a submission that succeeded shows no error and a clear
\* flag whether or not its chained request has failed.
C9_ChainFailureIsolated ==
  /\ [](outcome = "success" => (error = Null /\ ~isProcessing /\ results = currentResults))
  /\ [][\A j \in 1..Len(srsRequests) :
          srsRejected(j) =>
            /\ results' = results
            /\ currentResults' = currentResults
            /\ error' = error
            /\ validationErrors' = validationErrors
            /\ isProcessing' = isProcessing
            /\ outcome' = outcome
            /\ faultEscaped' = faultEscaped]_vars

\* a submission succeeded, its chained request was rejected (no document came)
C9_Witness ==
  /\ outcome = "success"
  /\ results = ResultCompleted
  /\ srsRequests = <<>>
  /\ srsData = Null
  /\ error = Null
  /\ ~isProcessing

\* C10 (refuted by the code): no processRequirements invocation ends with an
\* uncaught exception, whatever the shape of the failure or success payload.
C10_NoFaultEscapes == ~faultEscaped

\* the validation_errors field of a failure, if it has a response body
ValidationErrorsOf(e) ==
  IF "response" \in DOMAIN e.v /\ e.v.response.v.data.t = "obj"
        /\ "validation_errors" \in DOMAIN e.v.response.v.data.v
  THEN e.v.response.v.data.v.validation_errors
  ELSE Undefined

\* the error field of the response body of a failure, if it has one
ServiceMessageOf(e) ==
  IF "response" \in DOMAIN e.v /\ e.v.response.v.data.t = "obj"
        /\ "error" \in DOMAIN e.v.response.v.data.v
  THEN e.v.response.v.data.v.error
  ELSE Undefined

\* C11 (refuted by the code): every failure the catch block has handled,
\* whatever its payload, leaves an error with a non-empty headline exposed;
\* no failure ends with no error shown.
C11_NormalizationTotal ==
  outcome = "failed" => (error.t = "str" /\ error.v # "")

\* a per-file payload: a non-empty list whose every item has a file
\* identifier and a list of messages
IsPerFileList(e) ==
  LET l == ValidationErrorsOf(e)
  IN /\ l.t = "arr"
     /\ l.v # <<>>
     /\ \A k \in 1..Len(l.v) :
          /\ l.v[k].t = "obj"
          /\ DOMAIN l.v[k].v = {"file", "errors"}
          /\ l.v[k].v.file.t = "str"
          /\ l.v[k].v.errors.t = "arr"
          /\ \A m \in 1..Len(l.v[k].v.errors.v) : l.v[k].v.errors.v[m].t = "str"

\* the messages joined by ", "
RECURSIVE CommaJoined(_)
CommaJoined(msgs) ==
  IF msgs = <<>> THEN ""
  ELSE IF Len(msgs) = 1 THEN msgs[1].v
  ELSE msgs[1].v \o ", " \o CommaJoined(Tail(msgs))

\* "<file>: <errors joined by ', '>"
ExpectedDetailLine(item) == Str(item.v.file.v \o ": " \o CommaJoined(item.v.errors.v))

\* C12: a request rejected with a per-file payload exposes the headline
\* "Validation failed for uploaded files" and one detail line per item, in
\* payload order, each "<file>: <errors joined by ', '>".
C12_PerFileDetailLines ==
  [][\A i \in 1..Len(requests) : \A e \in FailurePayloads :
       (IsPerFileList(e) /\ processRejected(i, e)) =>
         /\ error' = Str("Validation failed for uploaded files")
         /\ validationErrors' =
              [k \in 1..Len(ValidationErrorsOf(e).v) |->
                 ExpectedDetailLine(ValidationErrorsOf(e).v[k])]]_vars

\* the two-file payload has been normalized: two lines, in payload order
C12_Witness ==
  /\ outcome = "failed"
  /\ error = Str("Validation failed for uploaded files")
  /\ validationErrors = <<Str("a.txt: too short, no letters"), Str("b.wav: too short")>>

\* the headline of a failure without validation payload: the message of the
\* service, else the text of the transport error, else the generic fallback
ExpectedHeadline(e) ==
  IF ServiceMessageOf(e).t = "str" /\ ServiceMessageOf(e).v # "" THEN ServiceMessageOf(e)
  ELSE IF "message" \in DOMAIN e.v /\ e.v.message.t = "str" /\ e.v.message.v # ""
       THEN e.v.message
       ELSE Str("An error occurred")

\* C13 (refuted by the code): a request rejected without validation payload
\* exposes the best available message as headline and no detail line,
\* whatever the user did while the request was in flight.
C13_FallbackHeadlineNoDetails ==
  [][\A i \in 1..Len(requests) : \A e \in FailurePayloads :
       (ValidationErrorsOf(e) = Undefined /\ processRejected(i, e)) =>
         /\ error' = ExpectedHeadline(e)
         /\ validationErrors' = <<>>]_vars

\* the recording session as the flags show it
Idle == ~isRecording /\ audioBlob = 0
Recording == isRecording
Captured == ~isRecording /\ audioBlob # 0

OpenStreams == {r \in 1..Len(recorders) : recorders[r].streamOpen}
ActiveRecorders == {r \in 1..Len(recorders) : recorders[r].state = "recording"}

\* C14 (refuted by the code): at most one capture stream is open, at most one
\* recorder is active and at most one tick is scheduled in every reachable
\* state, however start clicks interleave with the microphone grant.
C14_SingleSession ==
  /\ Cardinality(OpenStreams) <= 1
  /\ Cardinality(ActiveRecorders) <= 1
  /\ Cardinality(timers) <= 1

\* C15 (refuted by the code): a stop cancels the tick: no tick is scheduled
\* once the recording flag is down, and the duration counter changes in no
\* step that starts with the flag down, except by a start or a clear.
C15_StopCancelsTick ==
  /\ [](~isRecording => timers = {})
  /\ [][(~isRecording /\ recordingTime' # recordingTime) =>
          (micGranted \/ clearRecording)]_vars

\* a stop has completed: some recorder has delivered its clip, none is
\* between stop() and its onstop event
StopCompleted ==
  /\ \E r \in 1..Len(recorders) : recorders[r].state = "inactive"
  /\ \A r \in 1..Len(recorders) : recorders[r].state # "stopping"

\* C16 (refuted by the code): once a stop has completed and the session is
\* Captured or Idle, no capture stream is open and no recorder is recording.
C16_StopReleasesStream ==
  (StopCompleted /\ (Captured \/ Idle)) => (OpenStreams = {} /\ ActiveRecorders = {})

\* C17 (refuted by the code): a clear leaves no clip, no playback handle in
\* the state and a duration of 0, and every playback handle created has been
\* revoked whenever the session is Idle.
C17_ClearReturnsToIdle ==
  /\ [](Idle => urls = {})
  /\ [][clearRecording =>
          (audioBlob' = 0 /\ audioUrl' = 0 /\ recordingTime' = 0 /\ audioUrl \notin urls')]_vars

\* what the recording session consists of: its flags, its counter, its clip
\* and the resources it holds
sessionVars == <<isRecording, audioBlob, audioUrl, recordingTime, mediaRecorderRef,
                 timerRef, recorders, timers, urls>>

\* C18 (refuted by the code): the continuation of a start that runs while the
\* session is not Idle, a stop while it is not Recording and a clear while it
\* is not Captured leave the session as it is.
C18_OutOfStateCallsHarmless ==
  [][/\ (~Idle /\ micGranted) => UNCHANGED sessionVars
     /\ (~Recording /\ stopRecording) => UNCHANGED sessionVars
     /\ (~Captured /\ clearRecording) => UNCHANGED sessionVars]_vars

\* C19 (refuted by the code): a start that fails, by a refused microphone or
\* in a later statement, exposes the error message and leaves no capture
\* stream open, no tick scheduled and the session Idle.
C19_FailedStartLeavesIdle ==
  [][(Idle /\ timers = {} /\ OpenStreams = {}
        /\ (micDenied \/ \E step \in StartSteps : recorderFailed(step))) =>
       /\ error' = Str(MsgMicDenied)
       /\ Idle'
       /\ OpenStreams' = {}
       /\ timers' = {}]_vars

\* C20 (refuted by the code): removeFile(id) removes exactly one entry, one
\* that carries the id, and leaves every other entry in place, in order and
\* with its id; for an id no entry carries it leaves the queue as it is.
C20_RemoveExactlyOne ==
  [][\A id \in IdValues :
       removeFile(id) =>
         IF \E i \in 1..Len(uploadedFiles) : uploadedFiles[i].id = id
         THEN \E i \in 1..Len(uploadedFiles) :
                /\ uploadedFiles[i].id = id
                /\ uploadedFiles' = RemoveAt(uploadedFiles, i)
         ELSE uploadedFiles' = uploadedFiles]_vars

\* C21 (refuted by the code): after any sequence of drops and removals the
\* staged files carry pairwise distinct ids.
C21_DistinctIds ==
  \A i, j \in 1..Len(uploadedFiles) :
     i # j => uploadedFiles[i].id # uploadedFiles[j].id

\* C22: exactly one input mode is active in every state, and a step that
\* switches the mode changes nothing else: the text draft, the clip and its
\* handle, the recording state and the file queue are as before the switch.
C22_ModeSwitchKeepsInput ==
  /\ [](inputType \in InputModes)
  /\ [][inputType' # inputType =>
          UNCHANGED <<textInput, audioBlob, audioUrl, isRecording, recordingTime,
                      mediaRecorderRef, timerRef, uploadedFiles>>]_vars

\* the text tab is shown again while a recording runs and a draft and a file
\* are staged
C22_Witness ==
  /\ inputType = "text"
  /\ isRecording
  /\ textInput = ValidText
  /\ Len(uploadedFiles) > 0

\* the words of a text counted on the text itself: the positions where a
\* maximal run of non-whitespace characters begins
TokenCount(t) ==
  Cardinality({i \in 1..Len(t) :
                 t[i] \notin Whitespace /\ (i = 1 \/ t[i - 1] \in Whitespace)})

IsLengthViolation(v) == \E n \in 0..(2 * minWords) : v = Str(MsgMinWords(n))

\* C23: under both policies the validation of a text with 49 or fewer words
\* holds the length violation that states the text's word count, and the
\* validation of a text with 50 or more words holds no length violation;
\* the handler exposes that validation for every text that is not blank.
C23_WordCountRule ==
  [][\A t \in RuleTexts :
       handleTextInputChange(t) =>
         LET v == validateTextInput(t)
             lengthViolations == {i \in 1..Len(v) : IsLengthViolation(v[i])}
         IN /\ Trim(t) # <<>> => validationErrors' = v
            /\ IF TokenCount(t) < minWords
               THEN \E i \in 1..Len(v) :
                      /\ v[i] = Str(MsgMinWords(TokenCount(t)))
                      /\ lengthViolations = {i}
               ELSE lengthViolations = {}]_vars

\* a text of 49 words between runs of whitespace has been typed
C23_Witness ==
  /\ TokenCount(textInput) = minWords - 1
  /\ \E i \in 2..Len(textInput) :
       textInput[i] \in Whitespace /\ textInput[i - 1] \in Whitespace
  /\ validationErrors = <<Str(MsgMinWords(minWords - 1))>>

\* a text of alphabetic words only
Alphabetic(t) == \A i \in 1..Len(t) : t[i] \in Letters \cup Whitespace
\* a text of alphabetic words with one digit inserted
OneDigitInserted(t) ==
  \E d \in 1..Len(t) :
    /\ t[d] \in Digits
    /\ \A i \in 1..Len(t) : i # d => t[i] \in Letters \cup Whitespace

\* C24 (as the spec states it): under Policy A a text of 50 alphabetic words
\* passes with an empty list, and the same text with one digit inserted
\* fails with exactly one violation, the digit-content violation.
C24_DigitAlone ==
  [][\A t \in RuleTexts :
       (policy = "A" /\ TokenCount(t) >= minWords /\ handleTextInputChange(t)) =>
         /\ Alphabetic(t) => validationErrors' = <<>>
         /\ OneDigitInserted(t) => validationErrors' = <<Str(MsgNumbers)>>]_vars

\* C24 (amended): under Policy A a text of 50 alphabetic words passes with an
\* empty list, and the same text with one digit inserted fails with exactly
\* two violations, the digit-content violation followed by the
\* disallowed-symbol violation, and no length violation.
C24_DigitAndSymbol ==
  [][\A t \in RuleTexts :
       (policy = "A" /\ TokenCount(t) >= minWords /\ handleTextInputChange(t)) =>
         /\ Alphabetic(t) => validationErrors' = <<>>
         /\ OneDigitInserted(t) =>
              validationErrors' = <<Str(MsgNumbers), Str(MsgSymbols)>>]_vars

\* under Policy A a text of 50 words, one of them with a digit, has been typed
C24_Witness ==
  /\ policy = "A"
  /\ TokenCount(textInput) >= minWords
  /\ OneDigitInserted(textInput)
  /\ validationErrors = <<Str(MsgNumbers), Str(MsgSymbols)>>

\* C25: under Policy B the validation of a text without any alphabetic
\* character fails whatever its word count, the content violation first and
\* the length violation (if the text is short) second; the validation of a
\* text with a letter and 50 or more words is empty, digits and symbols or
\* not; the handler exposes that validation for every text that is not blank.
C25_LenientPolicy ==
  [][\A t \in RuleTexts :
       (policy = "B" /\ handleTextInputChange(t)) =>
         LET v == validateTextInput(t)
             hasLetter == \E i \in 1..Len(t) : t[i] \in Letters
         IN /\ Trim(t) # <<>> => validationErrors' = v
            /\ ~hasLetter =>
                 v = IF TokenCount(t) < minWords
                     THEN <<Str(MsgNoLetter), Str(MsgMinWords(TokenCount(t)))>>
                     ELSE <<Str(MsgNoLetter)>>
            /\ (hasLetter /\ TokenCount(t) >= minWords) => v = <<>>]_vars

\* under Policy B a short text of digits and symbols has been typed
C25_Witness ==
  /\ policy = "B"
  /\ textInput # <<>>
  /\ \A i \in 1..Len(textInput) : textInput[i] \notin Letters
  /\ validationErrors = <<Str(MsgNoLetter), Str(MsgMinWords(TokenCount(textInput)))>>

\* a validation payload that is a flat list of message strings
IsStringList(e) ==
  /\ ValidationErrorsOf(e).t = "arr"
  /\ Len(ValidationErrorsOf(e).v) > 0
  /\ \A k \in 1..Len(ValidationErrorsOf(e).v) : ValidationErrorsOf(e).v[k].t = "str"
\* a validation payload that is a single message string
IsSingleString(e) == ValidationErrorsOf(e).t = "str" /\ ValidationErrorsOf(e).v # ""

HasServiceMessage(e) == ServiceMessageOf(e).t = "str" /\ ServiceMessageOf(e).v # ""

\* C26: a rejection whose validation payload is a flat list of message
\* strings exposes that list, verbatim and in order, as the details; one whose
\* payload is a single string exposes the one-element list of that string;
\* the headline is the service's message if the body has one, else the
\* generic headline of the shape.
C26_FlatListAndString ==
  [][\A i \in 1..Len(requests) : \A e \in FailurePayloads :
       processRejected(i, e) =>
         /\ IsStringList(e) =>
              /\ validationErrors' = ValidationErrorsOf(e).v
              /\ error' = IF HasServiceMessage(e) THEN ServiceMessageOf(e)
                          ELSE Str("Audio content validation failed")
         /\ IsSingleString(e) =>
              /\ validationErrors' = <<ValidationErrorsOf(e)>>
              /\ error' = IF HasServiceMessage(e) THEN ServiceMessageOf(e)
                          ELSE Str("Validation failed")]_vars

\* a flat list of two messages came with the service's own headline
C26_Witness ==
  /\ outcome = "failed"
  /\ error = Str("Audio rejected")
  /\ validationErrors = <<Str("too short"), Str("noisy")>>

\* C27 (refuted by the code): the session is in exactly one of Idle,
\* Recording and Captured in every state: the recording flag and a captured
\* clip never hold together, whenever start, stop and the recorder's onstop
\* event come.
C27_RecordingExcludesClip ==
  /\ Cardinality({s \in {"Idle", "Recording", "Captured"} :
                    \/ s = "Idle" /\ Idle
                    \/ s = "Recording" /\ Recording
                    \/ s = "Captured" /\ Captured}) = 1
  /\ ~(isRecording /\ audioBlob # 0)

\* the document of the most recent submission that completed
LatestDocument == SrsDocumentFor(srsRequest(results, projectInfo))

\* C28 (refuted by the code): once the document of the most recent completed
\* submission is exposed, the response of the derived-document call of an
\* earlier submission does not replace it, however late it arrives.
C28_LateResponseNeverOverwrites ==
  [][\A j \in 1..Len(srsRequests) :
       (/\ results # Null
        /\ srsData # Null
        /\ srsData = LatestDocument
        /\ SrsDocumentFor(srsRequests[j]) # LatestDocument
        /\ srsResolved(j, SrsDocumentFor(srsRequests[j]))) =>
         srsData' = LatestDocument]_vars

\* a step of a submission: its synchronous part, the settling of its request
\* or the settling of its derived-document call
SubmitStep ==
  \/ requests' # requests
  \/ srsRequests' # srsRequests
  \/ outcome' # outcome
  \/ isProcessing' # isProcessing

\* C29: no step of a submission, on whatever exit path, changes the staged
\* input: the text draft, the file queue, the clip and its handle, the
\* recording state, the project info and the active mode stay as they are.
C29_SubmitKeepsInput ==
  [][SubmitStep =>
       UNCHANGED <<textInput, uploadedFiles, audioBlob, audioUrl, isRecording,
                   recordingTime, projectInfo, inputType>>]_vars

\* a submission has succeeded and the draft, the clip and the file it could
\* have sent are all still staged
C29_Witness ==
  /\ outcome = "success"
  /\ textInput = ValidText
  /\ audioBlob # 0
  /\ Len(uploadedFiles) > 0

\* C30 (refuted by the code): a success result and an error of a submission
\* are never exposed together: after a submission has failed, no result of
\* an earlier submission is still exposed.
C30_ResultExcludesError ==
  /\ ~(results # Null /\ error # Null)
  /\ outcome \in ExitOutcomes \ {"success"} => results = Null

====
